---- MODULE Spec2Model ----
(***************************************************************************)
(* Model of et_model.py: hourly reference evapotranspiration (FAO          *)
(* Penman-Monteith) and the per-plant soil-water balance.                  *)
(*                                                                         *)
(* Arithmetic.  The script computes in binary floating point.  Here a real *)
(* quantity r is the integer nearest to r * 10^6 ("micro": theta, Ks, Kc,  *)
(* depths in mm and in m, kPa, degC, kWh, ...), and every arithmetic       *)
(* operation is the exact operation followed by rounding to the nearest    *)
(* unit.  Three quantities too large for that scale are held in units of   *)
(* 10^-3 ("milli"): (T + 237.3)**2, 4098 * es, and the plant area with the *)
(* intermediate products of the cooling energy.  Products are formed by    *)
(* MulDiv, which never holds a value outside the 32-bit range of the model *)
(* checker's integers.  The one exception to rounding every operation is   *)
(* the water balance (line 160): the amount added to theta is not rounded  *)
(* on its own, only the new theta is, as a float rounds a sum to the       *)
(* precision of the sum.                                                   *)
(***************************************************************************)
EXTENDS Integers, Sequences, FiniteSets

Milli == 10^3
Micro == 10^6

Abs(x) == IF x < 0 THEN 0 - x ELSE x
Sgn(x) == IF x < 0 THEN 0 - 1 ELSE 1
Min2(a, b) == IF b < a THEN b ELSE a
Max2(a, b) == IF b > a THEN b ELSE a

\* Digits of the multiplier taken at a time: the largest of 2^10, 2^5 and 2
\* for which 2 * c * base stays within 2^31 (c < 2^29).
DigitBase(c) == IF c < 2^20 THEN 2^10 ELSE IF c < 2^25 THEN 2^5 ELSE 2

\* <<q, r>> with a*b = q*c + r and 0 <= r < c, for a, b >= 0 and c > 0, by
\* long multiplication over the digits of b in base B.
MulDivQR[a \in Nat, b \in Nat, c \in Nat, B \in Nat] ==
    IF b = 0 THEN <<0, 0>>
    ELSE LET h == MulDivQR[a, b \div B, c, B]
             x == h[2] * B + (a % c) * (b % B)
         IN  <<h[1] * B + (a \div c) * (b % B) + (x \div c), x % c>>

\* Rounds the quotient q of qr = <<q, r>> by c to the nearest integer.
RoundQR(qr, c) == qr[1] + (IF 2 * qr[2] >= c THEN 1 ELSE 0)

\* |a|*|b|/c rounded to the nearest integer, the smaller factor as multiplier.
MulDivNat[a \in Nat, b \in Nat, c \in Nat] ==
    IF a >= b THEN RoundQR(MulDivQR[a, b, c, DigitBase(c)], c)
              ELSE RoundQR(MulDivQR[b, a, c, DigitBase(c)], c)

\* a*b/c rounded to the nearest integer (half away from zero); c # 0.
MulDiv(a, b, c) == Sgn(a) * Sgn(b) * Sgn(c) * MulDivNat[Abs(a), Abs(b), Abs(c)]

(***************************************************************************)
(* Program constants (et_model.py lines 8-10); LAMBDA_ is the script's   *)
(* LAMBDA, a reserved word here.                                           *)
(***************************************************************************)
LAMBDA_ == 2450000                         \* 2.45 MJ/kg, micro
MJ_TO_KWH == MulDiv(Micro, Micro, 3600000) \* 1 / 3.6, micro
GAMMA == 66500                             \* 0.0665, micro

(***************************************************************************)
(* nan.  A float that is nan is the value NaN, which no arithmetic result  *)
(* of the model equals; every operation on floats below yields NaN when an *)
(* operand is NaN, and every comparison with NaN is false, as in the       *)
(* script's floats.                                                        *)
(***************************************************************************)
NaN == 0 - 2^30

\* Float addition (the += of line 165).
Add(a, b) == IF a = NaN \/ b = NaN THEN NaN ELSE a + b

\* exp(x) for x in micro, result in micro: the power series, summed until a
\* term rounds to zero; exp(-x) = 1/exp(x) for negative arguments.
RECURSIVE ExpSeries(_, _, _)
ExpSeries(x, term, n) ==
    IF term = 0 THEN 0
    ELSE term + ExpSeries(x, MulDiv(term, x, n * Micro), n + 1)

Exp(x) ==
    IF x >= 0 THEN ExpSeries(x, Micro, 1)
    ELSE MulDiv(Micro, Micro, ExpSeries(0 - x, Micro, 1))

\* 0.6108 * np.exp((17.27 * T) / (T + 237.3)).  At T = -237.3 the quotient
\* is -inf and exp(-inf) = 0.
saturation_vapour_pressure(T) ==
    IF T + 237300000 = 0 THEN 0
    ELSE MulDiv(610800,
                Exp(MulDiv(MulDiv(17270000, T, Micro), Micro, T + 237300000)),
                Micro)

\* 4098 * es / (T + 237.3)**2.  At T = -237.3 this is 4098 * 0 / 0 = nan.
delta_vapour_pressure(T) ==
    LET es == saturation_vapour_pressure(T)
        t  == MulDiv(T + 237300000, 1, Milli)             \* milli
        sq == MulDiv(t, t, Milli)                         \* milli
    IN  IF T + 237300000 = 0 THEN NaN
        ELSE MulDiv(MulDiv(4098, es, Milli), Micro, sq)

\* The quotient of line 90, before the clamp (lines 85-90).  A nan delta
\* makes numerator and denominator nan.
PenmanMonteith(row) ==
    LET T     == row.T
        u2    == row.u2
        es    == saturation_vapour_pressure(T)
        ea    == MulDiv(es, row.RH, 100 * Micro)
        delta == delta_vapour_pressure(T)
        Rn    == MulDiv(row.GHI, 800000, 3600000)
        rad   == MulDiv(MulDiv(408000, delta, Micro), Rn, Micro)
        aero  == MulDiv(MulDiv(MulDiv(GAMMA,
                                      MulDiv(900 * Micro, Micro, T + 273000000),
                                      Micro),
                               u2, Micro),
                        es - ea, Micro)
        den   == delta + MulDiv(GAMMA, Micro + MulDiv(340000, u2, Micro), Micro)
    IN  IF delta = NaN THEN NaN
        ELSE MulDiv(rad + aero, Micro, den)

\* Variant of line 91 that returns the quotient unclamped.
ET0Unclamped(et0) == et0

\* max(et0, 0): Python's max keeps its first argument unless the second
\* compares greater, so a nan et0 is returned as nan.
ClampET0(et0) == IF et0 = NaN THEN NaN ELSE Max2(et0, 0)

calculate_et0(row) == ClampET0(PenmanMonteith(row))

(***************************************************************************)
(* Bounds of the model.                                                    *)
(***************************************************************************)
MaxRows == 3        \* rows of the weather table
MaxPlants == 2      \* entries of config['plants']
DroughtRows == 460  \* rows of a sustained drought

Unset == 0 - 1      \* a local variable not yet assigned

(***************************************************************************)
(* Input data: plant_properties.csv, config.yaml and the weather file.     *)
(***************************************************************************)
\* plant_properties.csv: Kc, Root Depth (m), Wilting Point, Field Capacity.
\* Grass is the plant of the spec's scenarios C and D.  The last three rows
\* each break one validation.
props_df ==
    [ Grass   |-> [Kc |-> Micro, root |-> 300000, wp |-> 100000, fc |-> 300000],
      Herb    |-> [Kc |-> 800000, root |-> 80000, wp |-> 150000, fc |-> 250000],
      Moss    |-> [Kc |-> Micro, root |-> 10000, wp |-> 250000, fc |-> 300000],
      BadRoot |-> [Kc |-> Micro, root |-> 0, wp |-> 100000, fc |-> 300000],
      BadSoil |-> [Kc |-> Micro, root |-> 300000, wp |-> 300000, fc |-> 300000],
      BadKc   |-> [Kc |-> 0, root |-> 300000, wp |-> 100000, fc |-> 300000] ]

\* Entries config['plants'] may hold: a type and an area (milli m2).  Fern
\* is not a row of plant_properties.csv.  Grass comes with two areas, so
\* that a list can hold two different plants of one type.
ConfigEntries ==
    { [type |-> "Grass", area_m2 |-> 10 * Milli],
      [type |-> "Grass", area_m2 |-> 20 * Milli],
      [type |-> "Herb", area_m2 |-> 10 * Milli],
      [type |-> "Fern", area_m2 |-> 10 * Milli],
      [type |-> "Grass", area_m2 |-> 0],
      [type |-> "BadRoot", area_m2 |-> 10 * Milli],
      [type |-> "BadSoil", area_m2 |-> 10 * Milli],
      [type |-> "BadKc", area_m2 |-> 10 * Milli] }

\* Lines 31-32: the type has a row in plant_properties.csv.
Known(plant) == plant.type \in DOMAIN props_df

\* Lines 35-43: one config entry merged with its properties row.
MergePlant(plant) ==
    LET props == props_df[plant.type]
    IN  [ type           |-> plant.type,
          area_m2        |-> plant.area_m2,
          kc             |-> props.Kc,
          root_depth_m   |-> props.root,
          wilting_point  |-> props.wp,
          field_capacity |-> props.fc ]

\* Lines 29-43: the entries merged in order up to the first unknown type;
\* `raised` says that one was met (the ValueError of line 34).
RECURSIVE MergeAll(_, _)
MergeAll(cfg, merged) ==
    IF Len(merged) = Len(cfg) THEN [raised |-> FALSE, plants |-> merged]
    ELSE IF ~Known(cfg[Len(merged) + 1]) THEN [raised |-> TRUE, plants |-> merged]
    ELSE MergeAll(cfg, Append(merged, MergePlant(cfg[Len(merged) + 1])))

\* A weather row from whole degC, m/s, %, W/m2 and mm.
WeatherRow(T, u2, RH, GHI, P) ==
    [T |-> T * Micro, u2 |-> u2 * Micro, RH |-> RH * Micro,
     GHI |-> GHI * Micro, Precip_mm |-> P * Micro]

\* The row at the pole of the saturation-pressure formula, T = -237.3.
SingularRow ==
    [T |-> 0 - 237300000, u2 |-> 2 * Micro, RH |-> 60 * Micro,
     GHI |-> 500 * Micro, Precip_mm |-> 0]

WeatherSamples ==
    { WeatherRow(25, 2, 60, 500, 5),     \* sunny, 5 mm of rain
      WeatherRow(10, 0, 100, 0, 30),     \* calm, saturated air, 30 mm of rain
      SingularRow }

\* Labels of the weather table's index, which read_epw sets (line 19) and
\* the script never resets: integers or timestamps.
IntLabel(k) == [kind |-> "int", at |-> k]
Timestamp(k) == [kind |-> "timestamp", at |-> k]

\* The indexes of a table of n rows, in row order: the integers 0..n-1, or
\* one timestamp per hour.
IndexSamples(n) ==
    { [i \in 1..n |-> IntLabel(i - 1)],
      [i \in 1..n |-> Timestamp(i - 1)] }

SeqsUpTo(S, n) == UNION { [1..k -> S] : k \in 0..n }

(***************************************************************************)
(* State: the script's globals and the locals of its simulation loop.      *)
(***************************************************************************)
VARIABLES
    config,            \* config['plants']
    weather_df,        \* the five weather columns, a sequence of rows
    index,             \* index label of each row of weather_df
    ET0_mm,            \* column ET0_mm of weather_df (<<>>: not yet added)
    plants_config,     \* merged plant list
    total_et_actual,   \* running total, a numpy array
    columns,           \* per-plant columns of weather_df, by plant type
    ET_actual_total,   \* column ET_actual_total (<<>>: not yet added)
    pc,                \* "merge", "et0", "plant", "rows", "done", "raised"
    error,             \* what the exception raised is about, or "none"
    plant_idx,         \* position of the outer loop in plants_config
    row_idx,           \* position of the inner loop in weather_df
    theta, Ks, ET_actual_mm, P_infiltration,
    thetas, kss, et_actuals, cooling_kWh

vars == <<config, weather_df, index, ET0_mm, plants_config, total_et_actual,
          columns, ET_actual_total, pc, error, plant_idx, row_idx,
          theta, Ks, ET_actual_mm, P_infiltration,
          thetas, kss, et_actuals, cooling_kWh>>

inputs == <<config, weather_df, index>>

locals == <<theta, Ks, ET_actual_mm, P_infiltration,
            thetas, kss, et_actuals, cooling_kWh>>

(***************************************************************************)
(* The soil water balance of one timestep (lines 144-163).                 *)
(***************************************************************************)
\* Lines 127-137: the parameter the ValueError names, or "ok".
Validate(plant) ==
    IF plant.area_m2 <= 0 THEN "area_m2"
    ELSE IF plant.root_depth_m <= 0 THEN "root_depth_m"
    ELSE IF ~(0 <= plant.wilting_point
              /\ plant.wilting_point < plant.field_capacity
              /\ plant.field_capacity <= Micro) THEN "soil"
    ELSE IF plant.kc <= 0 THEN "kc"
    ELSE "ok"

\* Variant of line 140 without the reset: the soil moisture the previous
\* plant ended with is carried into the next plant.
InitialThetaCarried(plant) == IF theta = Unset THEN plant.field_capacity ELSE theta

\* Line 140.
InitialTheta(plant) == plant.field_capacity

\* Variant of lines 147-152 without the linear interpolation.
StressCoefficientStep(th, theta_wp, theta_fc) ==
    IF th = NaN THEN NaN ELSE IF th > theta_wp THEN Micro ELSE 0

\* Lines 147-152.  Both comparisons are false of a nan theta, and the
\* interpolation of line 152 is then nan.
StressCoefficient(th, theta_wp, theta_fc) ==
    IF th = NaN THEN NaN
    ELSE IF th >= theta_fc THEN Micro
    ELSE IF th <= theta_wp THEN 0
    ELSE MulDiv(th - theta_wp, Micro, theta_fc - theta_wp)

\* Variant of line 154 that ignores the stress coefficient.
ActualETUnstressed(ks, kc, et0) ==
    IF et0 = NaN THEN NaN ELSE MulDiv(kc, et0, Micro)

\* Line 154: Ks * kc * ET0_mm.
ActualET(ks, kc, et0) ==
    IF ks = NaN \/ et0 = NaN THEN NaN
    ELSE MulDiv(MulDiv(ks, kc, Micro), et0, Micro)

\* Line 144: mm to m.
MmToM(x) == MulDiv(x, 1, 1000)

\* Lines 156-158; P in m.
Infiltration(P) ==
    IF P * 1000 > 20 * Micro
    THEN Min2(P, MulDiv(20 * Micro, 1, 1000)
                   + MulDiv(P - MulDiv(20 * Micro, 1, 1000), 700000, Micro))
    ELSE P

\* Variant of line 160 that withdraws ET_actual_mm without the / 1000.
WaterBalanceInMm(th, infil, et, root_depth) ==
    IF th = NaN \/ et = NaN THEN NaN
    ELSE th + MulDiv(infil - et, Micro, root_depth)

\* Line 160: theta + (P_infiltration - ET_actual_mm / 1000) / root_depth.
\* The amount added keeps its precision until the sum is rounded: it is
\* formed in units of 10^-9 m (infil * 1000 - et) and divided once.
WaterBalance(th, infil, et, root_depth) ==
    IF th = NaN \/ et = NaN THEN NaN
    ELSE th + MulDiv(infil * 1000 - et, 1000, root_depth)

\* Variant of line 161 without the upper clamp.
ClampBelowOnly(th, theta_wp, theta_fc) ==
    IF th = NaN THEN NaN ELSE Max2(th, theta_wp)

\* Line 161.  Python's min and max keep their first argument unless the
\* second compares less (greater): a nan theta stays nan.
Clamp(th, theta_wp, theta_fc) ==
    IF th = NaN THEN NaN ELSE Min2(Max2(th, theta_wp), theta_fc)

\* Line 163: ET_actual_mm * area * LAMBDA * MJ_TO_KWH / 1000; the area and
\* the three products in milli.
Cooling(et, area) ==
    IF et = NaN THEN NaN
    ELSE MulDiv(MulDiv(MulDiv(MulDiv(et, area, Micro), LAMBDA_, Micro),
                       MJ_TO_KWH, Micro),
                Micro, 1000 * Milli)

\* Variant of lines 144-163 that reports the stress coefficient of the soil
\* moisture after the update instead of the one the step used.
SoilStepKsAfterUpdate(plant, th, row, et0) ==
    LET ks    == StressCoefficient(th, plant.wilting_point, plant.field_capacity)
        et    == ActualET(ks, plant.kc, et0)
        infil == Infiltration(MmToM(row.Precip_mm))
        th1   == Clamp(WaterBalance(th, infil, et, plant.root_depth_m),
                       plant.wilting_point, plant.field_capacity)
    IN  [ theta          |-> th1,
          Ks             |-> StressCoefficient(th1, plant.wilting_point,
                                               plant.field_capacity),
          ET_actual_mm   |-> et,
          P_infiltration |-> infil,
          cooling        |-> Cooling(et, plant.area_m2) ]

\* Lines 144-163: what one pass of the inner loop computes from the soil
\* moisture th, a weather row and its ET0.
SoilStep(plant, th, row, et0) ==
    LET ks    == StressCoefficient(th, plant.wilting_point, plant.field_capacity)
        et    == ActualET(ks, plant.kc, et0)
        infil == Infiltration(MmToM(row.Precip_mm))
        th1   == WaterBalance(th, infil, et, plant.root_depth_m)
    IN  [ theta          |-> Clamp(th1, plant.wilting_point, plant.field_capacity),
          Ks             |-> ks,
          ET_actual_mm   |-> et,
          P_infiltration |-> infil,
          cooling        |-> Cooling(et, plant.area_m2) ]

\* Line 165, total_et_actual[i]: numpy takes an integer i in -n..n-1,
\* counting a negative one from the end, and raises IndexError for any
\* other integer and for a label that is no integer.
Indexable(i, n) == i.kind = "int" /\ 0 - n <= i.at /\ i.at < n

\* The element of a numpy array of length n that the integer i selects
\* (elements numbered from 1 here).
Position(i, n) == (i.at % n) + 1

\* Variant of line 165 that assigns where the script adds.
AccumulateAssign(total, i, et) ==
    [total EXCEPT ![Position(i, Len(total))] = et]

\* Line 165: total_et_actual[i] += ET_actual_mm, i the row's index label.
Accumulate(total, i, et) ==
    [total EXCEPT ![Position(i, Len(total))] = Add(@, et)]

(***************************************************************************)
(* The script, from the loaded inputs to the total column.                 *)
(***************************************************************************)
\* The script's state before line 29, for the given input files.
Loaded(cfg, weather, idx) ==
    /\ config = cfg
    /\ weather_df = weather
    /\ index = idx
    /\ plants_config = <<>>
    /\ ET0_mm = <<>>
    /\ total_et_actual = <<>>
    /\ columns = <<>>
    /\ ET_actual_total = <<>>
    /\ pc = "merge"
    /\ error = "none"
    /\ plant_idx = 1
    /\ row_idx = 1
    /\ theta = Unset /\ Ks = Unset /\ ET_actual_mm = Unset
    /\ P_infiltration = Unset
    /\ thetas = <<>> /\ kss = <<>> /\ et_actuals = <<>> /\ cooling_kWh = <<>>

\* After lines 19-26: the weather table and the two plant files loaded.
Init ==
    \E cfg \in SeqsUpTo(ConfigEntries, MaxPlants),
       weather \in [1..MaxRows -> WeatherSamples],
       idx \in IndexSamples(MaxRows) :
        Loaded(cfg, weather, idx)

\* Lines 29-43: the plant list is merged, or an unknown type is rejected
\* with a ValueError.
MergeConfig ==
    /\ pc = "merge"
    /\ \E m \in {MergeAll(config, <<>>)} :
          /\ plants_config' = m.plants
          /\ pc' = IF m.raised THEN "raised" ELSE "et0"
          /\ error' = IF m.raised THEN "type" ELSE error
    /\ UNCHANGED <<inputs, ET0_mm, total_et_actual, columns, ET_actual_total,
                   plant_idx, row_idx, locals>>

\* Lines 107-110: the ET0_mm column and the zeroed total.
CalcET0 ==
    /\ pc = "et0"
    /\ ET0_mm' = [i \in DOMAIN weather_df |-> calculate_et0(weather_df[i])]
    /\ total_et_actual' = [i \in DOMAIN weather_df |-> 0]
    /\ pc' = "plant"
    /\ UNCHANGED <<inputs, plants_config, columns, ET_actual_total, error,
                   plant_idx, row_idx, locals>>

\* Lines 118-141: the next plant is validated; it is rejected with a
\* ValueError or its simulation starts at field capacity.
BeginPlant ==
    /\ pc = "plant"
    /\ plant_idx <= Len(plants_config)
    /\ LET plant == plants_config[plant_idx]
       IN  IF Validate(plant) # "ok"
           THEN /\ pc' = "raised"
                /\ error' = Validate(plant)
                /\ UNCHANGED <<row_idx, locals>>
           ELSE /\ pc' = "rows"
                /\ row_idx' = 1
                /\ theta' = InitialTheta(plant)
                /\ thetas' = <<>> /\ kss' = <<>>
                /\ et_actuals' = <<>> /\ cooling_kWh' = <<>>
                /\ UNCHANGED <<error, Ks, ET_actual_mm, P_infiltration>>
    /\ UNCHANGED <<inputs, ET0_mm, plants_config, total_et_actual, columns,
                   ET_actual_total, plant_idx>>

\* Lines 143-170: one row of the inner loop.  Line 165 raises IndexError,
\* after the soil moisture is updated and before anything is recorded, when
\* the row's label does not index the numpy array.
Step ==
    /\ pc = "rows"
    /\ row_idx <= Len(weather_df)
    /\ \E r \in {SoilStep(plants_config[plant_idx], theta, weather_df[row_idx],
                          ET0_mm[row_idx])} :
          /\ theta' = r.theta
          /\ Ks' = r.Ks
          /\ ET_actual_mm' = r.ET_actual_mm
          /\ P_infiltration' = r.P_infiltration
          /\ IF Indexable(index[row_idx], Len(total_et_actual))
             THEN /\ total_et_actual' = Accumulate(total_et_actual, index[row_idx],
                                                   r.ET_actual_mm)
                  /\ thetas' = Append(thetas, r.theta)
                  /\ kss' = Append(kss, r.Ks)
                  /\ et_actuals' = Append(et_actuals, r.ET_actual_mm)
                  /\ cooling_kWh' = Append(cooling_kWh, r.cooling)
                  /\ row_idx' = row_idx + 1
                  /\ UNCHANGED <<pc, error>>
             ELSE /\ pc' = "raised"
                  /\ error' = "IndexError"
                  /\ UNCHANGED <<total_et_actual, thetas, kss, et_actuals,
                                 cooling_kWh, row_idx>>
    /\ UNCHANGED <<inputs, ET0_mm, plants_config, columns, ET_actual_total,
                   plant_idx>>

\* Lines 172-176: the plant's four columns, keyed by its type (a column of
\* the same name is replaced).
StoreColumns(cols, plant_type, result) ==
    [t \in DOMAIN cols \cup {plant_type} |->
        IF t = plant_type THEN result ELSE cols[t]]

StorePlant ==
    /\ pc = "rows"
    /\ row_idx > Len(weather_df)
    /\ columns' = StoreColumns(columns, plants_config[plant_idx].type,
                     [ SoilTheta |-> thetas, Ks |-> kss,
                       ET_actual |-> et_actuals, Cooling |-> cooling_kWh ])
    /\ plant_idx' = plant_idx + 1
    /\ pc' = "plant"
    /\ UNCHANGED <<inputs, ET0_mm, plants_config, total_et_actual,
                   ET_actual_total, error, row_idx, locals>>

\* Line 179: the total column, once every plant is done.
AddTotal ==
    /\ pc = "plant"
    /\ plant_idx > Len(plants_config)
    /\ ET_actual_total' = total_et_actual
    /\ pc' = "done"
    /\ UNCHANGED <<inputs, ET0_mm, plants_config, total_et_actual, columns,
                   error, plant_idx, row_idx, locals>>

Next == MergeConfig \/ CalcET0 \/ BeginPlant \/ Step \/ StorePlant \/ AddTotal

Spec == Init /\ [][Next]_vars

(***************************************************************************)
(* calculate_et0 alone, over a grid of weather samples that includes the   *)
(* formula's singular temperature and a relative humidity above 100.       *)
(***************************************************************************)
ET0Grid ==
    { [T |-> T, u2 |-> u2 * Micro, RH |-> RH * Micro, GHI |-> GHI * Micro,
       Precip_mm |-> 0] :
        T \in {0 - 237300000, 0 - 5 * Micro, 10 * Micro, 25 * Micro},
        u2 \in {0, 2, 5}, RH \in {0, 60, 100, 120}, GHI \in {0, 500} }

\* Line 107 reached with a table of one row and no plant configured.
InitET0 ==
    /\ \E row \in ET0Grid : Loaded(<<>>, <<row>>, <<IntLabel(0)>>)

SpecET0 == InitET0 /\ [][MergeConfig \/ CalcET0]_vars

(***************************************************************************)
(* Sustained drought: the script run for one plant over DroughtRows equal  *)
(* rows without rain.                                                      *)
(***************************************************************************)
\* Grass, the plant of scenario D, and Moss, whose 1 cm of roots hold less
\* water than one step withdraws.
DroughtEntries ==
    { [type |-> t, area_m2 |-> 10 * Milli] : t \in {"Grass", "Moss"} }

\* The rainless row whose ET0 is the 1 mm of the spec's scenario D.
DroughtWeather ==
    { [T |-> 25 * Micro, u2 |-> 0, RH |-> 100 * Micro, GHI |-> 14916700,
       Precip_mm |-> 0] }

InitDrought ==
    \E entry \in DroughtEntries, row \in DroughtWeather :
        Loaded(<<entry>>, [i \in 1..DroughtRows |-> row],
               [i \in 1..DroughtRows |-> IntLabel(i - 1)])

SpecDrought == InitDrought /\ [][Next]_vars

(***************************************************************************)
(* Properties.                                                             *)
(***************************************************************************)
CurPlant == plants_config[plant_idx]

\* Soil moisture at the start of row k of the plant being simulated.
ThetaBefore(k) == IF k = 1 THEN CurPlant.field_capacity ELSE thetas[k - 1]

\* Every ET0 of the series is a number (and then non-negative).
NumericET0 == \A i \in DOMAIN ET0_mm : ET0_mm[i] # NaN

\* C1: for a validated plant and non-negative ET0 and precipitation, theta
\* lies within [wilting_point, field_capacity] at initialisation and after
\* the update of every timestep (the current value, also when line 165 then
\* raises, every recorded value, every stored SoilTheta column).
C1_ThetaWithinBounds ==
    NumericET0 =>
        /\ (pc = "rows" \/ error = "IndexError") =>
              /\ CurPlant.wilting_point <= theta
              /\ theta <= CurPlant.field_capacity
              /\ \A k \in DOMAIN thetas :
                    /\ CurPlant.wilting_point <= thetas[k]
                    /\ thetas[k] <= CurPlant.field_capacity
        /\ \A t \in DOMAIN columns : \A k \in DOMAIN columns[t].SoilTheta :
              /\ props_df[t].wp <= columns[t].SoilTheta[k]
              /\ columns[t].SoilTheta[k] <= props_df[t].fc

\* A plant dried to the wilting point by a step whose demand exceeded the
\* available water, then refilled to field capacity by rain in excess.
C1_Witness ==
    /\ pc = "rows"
    /\ NumericET0
    /\ \E j, k \in DOMAIN thetas :
          /\ j < k
          /\ thetas[j] = CurPlant.wilting_point
          /\ thetas[k] = CurPlant.field_capacity
          /\ weather_df[k].Precip_mm > 20 * Micro

\* C2: with precipitation P mm, the step's infiltration is 20 mm plus 30% of
\* (P - 20) mm when P > 20, all of P when P <= 20, and never more than P.
C2_InfiltrationThirtyPercent ==
    (pc = "rows" /\ row_idx > 1) =>
        LET P_mm == weather_df[row_idx - 1].Precip_mm
        IN  /\ P_mm > 20 * Micro =>
                  P_infiltration
                    = MmToM(20 * Micro + MulDiv(P_mm - 20 * Micro, 300000, Micro))
            /\ P_mm <= 20 * Micro => P_infiltration = MmToM(P_mm)
            /\ P_infiltration <= MmToM(P_mm)

\* What the ValueError of a failed validation names.
ValidationErrors == {"area_m2", "root_depth_m", "soil", "kc"}

\* C3: when a plant fails validation, no timestep has been simulated for any
\* plant, no plant column has been stored and the running total is still
\* all zero, wherever the malformed plant stands in the list.
C3_RejectedBeforeSimulation ==
    (pc = "raised" /\ error \in ValidationErrors) =>
        /\ Ks = Unset
        /\ columns = <<>>
        /\ \A i \in DOMAIN total_et_actual : total_et_actual[i] = 0

\* C4 as stated: the stress coefficient of every timestep lies in [0, 1], is
\* 1 exactly when the soil moisture at the start of the step is at or above
\* field capacity, and 0 exactly when it is at or below the wilting point.
C4_StressCoefficientRange ==
    pc = "rows" =>
        \A k \in DOMAIN kss :
            /\ kss[k] # NaN
            /\ 0 <= kss[k] /\ kss[k] <= Micro
            /\ kss[k] = Micro <=> ThetaBefore(k) >= CurPlant.field_capacity
            /\ kss[k] = 0 <=> ThetaBefore(k) <= CurPlant.wilting_point

\* C4 amended: the same at every timestep that starts with a theta that is a
\* number, which is every timestep up to and including the first row whose
\* ET0 is nan; at every later timestep theta and Ks are nan.
C4_StressCoefficientOfNumber ==
    pc = "rows" =>
        \A k \in DOMAIN kss :
            /\ ThetaBefore(k) = NaN <=> \E j \in 1..(k - 1) : ET0_mm[j] = NaN
            /\ ThetaBefore(k) = NaN => kss[k] = NaN
            /\ ThetaBefore(k) # NaN =>
                  /\ 0 <= kss[k] /\ kss[k] <= Micro
                  /\ kss[k] = Micro <=> ThetaBefore(k) >= CurPlant.field_capacity
                  /\ kss[k] = 0 <=> ThetaBefore(k) <= CurPlant.wilting_point

\* One plant's run with a step at field capacity, a step at the wilting
\* point and a step in between.
C4_Witness ==
    /\ pc = "rows"
    /\ \E i, j, k \in DOMAIN kss :
          /\ kss[i] = Micro
          /\ kss[j] = 0 /\ ThetaBefore(j) = CurPlant.wilting_point
          /\ 0 < kss[k] /\ kss[k] < Micro

\* Sum over the first n configured plants of the ET_actual reported for the
\* plant at row t.
RECURSIVE PlantSum(_, _)
PlantSum(n, t) ==
    IF n = 0 THEN 0
    ELSE Add(PlantSum(n - 1, t), columns[plants_config[n].type].ET_actual[t])

\* C5: once all plants are simulated, ET_actual_total(t) is the sum over the
\* configured plants of their reported ET_actual(t); and after its zeroing
\* the running total only ever changes by one plant's ET_actual being added
\* at the row being simulated.
C5_TotalIsSumOfPlants ==
    /\ [](pc = "done" =>
            \A t \in DOMAIN weather_df :
                ET_actual_total[t] = PlantSum(Len(plants_config), t))
    /\ [][(pc # "et0" /\ total_et_actual' # total_et_actual) =>
            /\ pc = "rows"
            /\ total_et_actual'[row_idx] = Add(total_et_actual[row_idx], ET_actual_mm')
            /\ \A i \in DOMAIN total_et_actual :
                  i # row_idx => total_et_actual'[i] = total_et_actual[i]]_vars

\* Two plants done, both with evapotranspiration at some timestep, whose
\* total there exceeds either plant's own.
C5_Witness ==
    /\ pc = "done"
    /\ Len(plants_config) = 2
    /\ \E t \in DOMAIN weather_df :
          /\ ET_actual_total[t] # NaN
          /\ columns[plants_config[1].type].ET_actual[t] > 0
          /\ columns[plants_config[2].type].ET_actual[t] > 0
          /\ ET_actual_total[t] > columns[plants_config[1].type].ET_actual[t]
          /\ ET_actual_total[t] > columns[plants_config[2].type].ET_actual[t]

\* The first k result rows of `plant` simulated on its own from field
\* capacity over the shared weather and ET0 series.
RECURSIVE RunAlone(_, _)
RunAlone(plant, k) ==
    IF k = 0 THEN <<>>
    ELSE LET prev == RunAlone(plant, k - 1)
             th   == IF k = 1 THEN plant.field_capacity ELSE prev[k - 1].theta
         IN  Append(prev, SoilStep(plant, th, weather_df[k], ET0_mm[k]))

\* The rows recorded so far for the plant being simulated are those of `run`.
RecordedAre(run) ==
    \A k \in DOMAIN thetas :
        /\ thetas[k] = run[k].theta
        /\ kss[k] = run[k].Ks
        /\ et_actuals[k] = run[k].ET_actual_mm
        /\ cooling_kWh[k] = run[k].cooling

\* The four columns stored under plant type t are those of `run`.
ColumnsAre(t, run) ==
    \A k \in DOMAIN weather_df :
        /\ columns[t].SoilTheta[k] = run[k].theta
        /\ columns[t].Ks[k] = run[k].Ks
        /\ columns[t].ET_actual[k] = run[k].ET_actual_mm
        /\ columns[t].Cooling[k] = run[k].cooling

\* Among the plants already stored, the last one of the type of plant p.
LastOfType(p) ==
    CHOOSE q \in p..(plant_idx - 1) :
        /\ plants_config[q].type = plants_config[p].type
        /\ \A r \in (q + 1)..(plant_idx - 1) :
              plants_config[r].type # plants_config[p].type

\* C6 as stated: the result sequence of a plant depends only on its own
\* profile and the shared ET0 and precipitation series: the rows recorded
\* for the plant being simulated, and the columns reported for every plant
\* done, are those of the plant simulated on its own, whichever other
\* plants are configured.
C6_PlantsIndependent ==
    /\ pc = "rows" => RecordedAre(RunAlone(CurPlant, Len(thetas)))
    /\ \A p \in 1..Len(plants_config) :
          p < plant_idx =>
              ColumnsAre(plants_config[p].type,
                         RunAlone(plants_config[p], Len(weather_df)))

\* C6 amended: plants are simulated one after another in configuration
\* order, never interleaved (the columns stored are complete and are those
\* of the plants before the current one); the rows computed for a plant are
\* those of the plant simulated on its own from field capacity, whatever
\* plants precede it; the columns reported under a plant type are those of
\* the last plant of that type simulated, which replace an earlier one's.
C6_IndependentUntilStored ==
    /\ pc = "rows" => RecordedAre(RunAlone(CurPlant, Len(thetas)))
    /\ \A p \in 1..Len(plants_config) :
          p < plant_idx =>
              ColumnsAre(plants_config[p].type,
                         RunAlone(plants_config[LastOfType(p)], Len(weather_df)))
    /\ DOMAIN columns = { plants_config[p].type : p \in 1..(plant_idx - 1) }
    /\ \A t \in DOMAIN columns : Len(columns[t].SoilTheta) = Len(weather_df)
    /\ pc = "rows" => Len(thetas) = row_idx - 1

\* Two plants of one type and different areas done, the first left below
\* field capacity when the second began, with cooling reported.
C6_Witness ==
    /\ pc = "done"
    /\ NumericET0
    /\ Len(plants_config) = 2
    /\ plants_config[1].type = plants_config[2].type
    /\ plants_config[1].area_m2 # plants_config[2].area_m2
    /\ LET c == columns[plants_config[1].type]
       IN  /\ c.SoilTheta[Len(c.SoilTheta)] < plants_config[1].field_capacity
           /\ \E k \in DOMAIN weather_df : c.Cooling[k] > 0

\* The plant and ET0 of the spec's scenario D, its simulation begun.
ScenarioD ==
    /\ plants_config # <<>> /\ plants_config[1].type = "Grass"
    /\ ET0_mm # <<>> /\ ET0_mm[1] = Micro
    /\ theta # Unset

\* A transition that is one row of the inner loop, recorded.
RowDone == pc = "rows" /\ row_idx' = row_idx + 1

\* ET0/1000/root_depth_m for the drought's plant.
FullDecrease == MulDiv(ET0_mm[1], 1000, plants_config[1].root_depth_m)

\* C7 as stated: in scenario D, at each step before theta reaches the
\* wilting point, theta decreases by exactly ET0/1000/root_depth_m.
C7_ConstantDecrease ==
    [][(ScenarioD /\ RowDone /\ theta > plants_config[1].wilting_point) =>
            theta' = theta - FullDecrease]_vars

\* C7 amended: in scenario D theta decreases by exactly ET0/1000/root_depth_m
\* at the first step only (theta at field capacity, Ks = 1); at every step
\* the decrease is the step's Ks times ET0/1000/root_depth_m (kc = 1; to one
\* unit of theta's resolution), which is strictly less than
\* ET0/1000/root_depth_m once theta is below field capacity.
C7_DecreaseScaledByKs ==
    [][(ScenarioD /\ RowDone) =>
          /\ Abs((theta - theta') - MulDiv(Ks', FullDecrease, Micro)) <= 1
          /\ theta = plants_config[1].field_capacity =>
                Ks' = Micro /\ theta - theta' = FullDecrease
          /\ theta < plants_config[1].field_capacity =>
                Ks' < Micro /\ theta - theta' < FullDecrease]_vars

\* Scenario D after a step taken below field capacity.
C7_Witness ==
    /\ ScenarioD
    /\ Ks # Unset /\ Ks < Micro
    /\ theta < plants_config[1].field_capacity - 2 * FullDecrease + 10
    /\ theta > plants_config[1].wilting_point

ValidSample(row) ==
    /\ row.u2 >= 0
    /\ 0 <= row.RH /\ row.RH <= 100 * Micro
    /\ row.GHI >= 0

\* The returned value is the raw quotient clamped below at 0.
ClampedQuotient(row, et0) ==
    /\ et0 # NaN
    /\ et0 = IF PenmanMonteith(row) < 0 THEN 0 ELSE PenmanMonteith(row)

\* C9 as stated: for every sample with finite T, u2 >= 0, RH in [0,100] and
\* GHI >= 0 the ET0 value is the raw quotient clamped below at 0, hence
\* non-negative.
C9_ET0NonNegative ==
    \A i \in DOMAIN ET0_mm :
        ValidSample(weather_df[i]) =>
            /\ ClampedQuotient(weather_df[i], ET0_mm[i])
            /\ ET0_mm[i] >= 0

\* C9 amended: the same for every sample with T > -237.3 (at T = -237.3 the
\* quotient is nan and nan is returned); and whenever the raw quotient is a
\* number, of either sign, the value returned is that quotient clamped below
\* at 0.
C9_ET0NonNegativeAboveSingularity ==
    \A i \in DOMAIN ET0_mm :
        /\ (ValidSample(weather_df[i]) /\ weather_df[i].T > 0 - 237300000) =>
              /\ ClampedQuotient(weather_df[i], ET0_mm[i])
              /\ ET0_mm[i] >= 0
        /\ PenmanMonteith(weather_df[i]) # NaN =>
              ClampedQuotient(weather_df[i], ET0_mm[i])

\* A sample whose raw quotient is negative (humidity above saturation, wind,
\* no radiation), returned as 0.
C9_Witness ==
    \E i \in DOMAIN ET0_mm :
        /\ PenmanMonteith(weather_df[i]) # NaN
        /\ PenmanMonteith(weather_df[i]) < 0
        /\ ET0_mm[i] = 0

\* C10: in row k of a plant, Ks and ET_actual are those of the soil moisture
\* before the row's update (field capacity for the first row, whose Ks is
\* therefore 1, the theta recorded in row k-1 after that), and the theta
\* recorded is the value after the update and clamp.
C10_KsLagsTheta ==
    pc = "rows" =>
        /\ \A k \in DOMAIN kss :
              /\ kss[k] = StressCoefficient(ThetaBefore(k), CurPlant.wilting_point,
                                            CurPlant.field_capacity)
              /\ k = 1 => kss[k] = Micro
              /\ et_actuals[k] = ActualET(kss[k], CurPlant.kc, ET0_mm[k])
              /\ thetas[k] =
                   Clamp(WaterBalance(ThetaBefore(k),
                                      Infiltration(MmToM(weather_df[k].Precip_mm)),
                                      et_actuals[k], CurPlant.root_depth_m),
                         CurPlant.wilting_point, CurPlant.field_capacity)
        /\ Len(kss) = Len(thetas) /\ Len(thetas) = row_idx - 1
        /\ thetas # <<>> => theta = thetas[Len(thetas)]

\* A row whose recorded Ks is not the stress coefficient of the theta
\* recorded in the same row, both numbers.
C10_Witness ==
    /\ pc = "rows"
    /\ \E k \in DOMAIN kss :
          /\ kss[k] # NaN /\ thetas[k] # NaN
          /\ kss[k] # StressCoefficient(thetas[k], CurPlant.wilting_point,
                                        CurPlant.field_capacity)

====
